---- MODULE Spec2Model ----
(***************************************************************************)
(* Model of POST /api/quizzes (src/app/api/quizzes/route.ts): several      *)
(* invocations of the handler run concurrently against one database.       *)
(* JavaScript runs the code between two awaits without interruption, and   *)
(* every Prisma call is one statement that takes effect atomically at the   *)
(* database, so each action below is one database statement (or one        *)
(* awaited step) together with the synchronous code that follows it.       *)
(***************************************************************************)
EXTENDS Integers, Sequences, FiniteSets, TLC

\* ---------------------------------------------------------------- bounds
NumSubmissions == 2     \* concurrent invocations of POST
NumUsers == 2           \* rows of the User table
MaxScore == 2           \* scores a payload may carry: 1..MaxScore
MaxQuestions == 2       \* longest questions array of a payload

Submissions == 1..NumSubmissions
Users == 1..NumUsers
Scores == 1..MaxScore

\* The Question table (the catalog); MissingQuestion is an id no row has.
Question == {1, 2}
MissingQuestion == Cardinality(Question) + 1
QuestionRefs == Question \cup {MissingQuestion}
\* The questions the clients of the model answer right.
AnsweredRight == {1}

\* ------------------------------------------------------- JSON and payload
Num(n) == [type |-> "number", value |-> n]
Str(s) == [type |-> "string", value |-> s]
Bool(b) == [type |-> "boolean", value |-> b]
Arr(items) == [type |-> "array", items |-> items]
Obj(fields) == [type |-> "object", fields |-> fields]

\* One element of body.questions.
QuestionEntry(q) ==
    Obj([id |-> Num(q), isCorrect |-> Bool(q \in AnsweredRight),
         userAnswer |-> Str(IF q \in AnsweredRight THEN "A" ELSE "B")])

RECURSIVE CountCorrect(_)
CountCorrect(qs) ==
    IF qs = <<>> THEN 0
    ELSE (IF Head(qs) \in AnsweredRight THEN 1 ELSE 0) + CountCorrect(Tail(qs))

\* The questions arrays of the payloads: 1..MaxQuestions question references
\* in ascending order, none repeated.
QuestionLists ==
    { qs \in UNION { [1..n -> QuestionRefs] : n \in 1..MaxQuestions } :
        \A a, b \in DOMAIN qs : a < b => qs[a] < qs[b] }

ValidBody(s, qs) ==
    Obj([categoryId |-> Num(1),
         totalQuestions |-> Num(Len(qs)),
         correctAnswers |-> Num(CountCorrect(qs)),
         incorrectAnswers |-> Num(Len(qs) - CountCorrect(qs)),
         score |-> Num(s),
         questions |-> Arr([k \in DOMAIN qs |-> QuestionEntry(qs[k])])])

ValidBodies == { ValidBody(s, qs) : s \in Scores, qs \in QuestionLists }

\* Bodies that are JSON but not of the schema's shape: a field missing, a
\* field of the wrong type.
MissingFieldBody ==
    Obj([categoryId |-> Num(1), totalQuestions |-> Num(1), correctAnswers |-> Num(1),
         incorrectAnswers |-> Num(0),
         questions |-> Arr(<<QuestionEntry(1)>>)])
WrongTypeBody ==
    Obj([categoryId |-> Num(1), totalQuestions |-> Num(1), correctAnswers |-> Num(1),
         incorrectAnswers |-> Num(0), score |-> Str("1"),
         questions |-> Arr(<<QuestionEntry(1)>>)])

\* What the schema is asked to judge once the client is not trusted: counts
\* and a score that need not describe the questions array, which may be empty
\* or name a question twice.
AnyQuestionLists == UNION { [1..n -> QuestionRefs] : n \in 0..MaxQuestions }

AnyBody(t, c, w, s, qs) ==
    Obj([categoryId |-> Num(1),
         totalQuestions |-> Num(t),
         correctAnswers |-> Num(c),
         incorrectAnswers |-> Num(w),
         score |-> Num(s),
         questions |-> Arr([k \in DOMAIN qs |-> QuestionEntry(qs[k])])])

AnyBodies ==
    { AnyBody(t, c, w, s, qs) :
        t \in 0..MaxQuestions, c \in 0..MaxQuestions, w \in 0..MaxQuestions,
        s \in -1..MaxScore, qs \in AnyQuestionLists }
    \cup {MissingFieldBody, WrongTypeBody}

\* A body that is not JSON at all: request.json() rejects.
Unparsable == [type |-> "unparsable"]

Bodies == ValidBodies \cup {MissingFieldBody, WrongTypeBody, Unparsable}

\* The token cookie: absent, present but not verifying, or a signed token
\* carrying a user id.
NoToken == [kind |-> "missing", id |-> 0]
BadToken == [kind |-> "invalid", id |-> 0]
SignedToken(u) == [kind |-> "signed", id |-> u]
Tokens == {NoToken, BadToken} \cup { SignedToken(u) : u \in Users }

HasNumber(fields, f) == f \in DOMAIN fields /\ fields[f].type = "number"

questionSchema(item) ==
    /\ item.type = "object"
    /\ HasNumber(item.fields, "id")
    /\ "isCorrect" \in DOMAIN item.fields /\ item.fields["isCorrect"].type = "boolean"
    /\ "userAnswer" \in DOMAIN item.fields /\ item.fields["userAnswer"].type = "string"

quizSchema(body) ==
    /\ body.type = "object"
    /\ \A f \in {"categoryId", "totalQuestions", "correctAnswers",
                 "incorrectAnswers", "score"} : HasNumber(body.fields, f)
    /\ "questions" \in DOMAIN body.fields
    /\ body.fields["questions"].type = "array"
    /\ \A k \in DOMAIN body.fields["questions"].items :
          questionSchema(body.fields["questions"].items[k])

\* ------------------------------------------------------------- responses
AuthenticationErrorStatus == 401
ValidationErrorStatus == 400
APIErrorStatus == 500
SuccessStatus == 200

NoResponse == [status |-> 0, code |-> "none", quizId |-> 0]
ErrorResponse(status, code) == [status |-> status, code |-> code, quizId |-> 0]
SuccessResponse(id) == [status |-> SuccessStatus, code |-> "success", quizId |-> id]
\* The catch block's answer to an error that is no APIError.
InternalServerError == ErrorResponse(APIErrorStatus, "INTERNAL_SERVER_ERROR")

VARIABLES
    jwtSecret,     \* process.env.JWT_SECRET is defined
    Quiz,          \* the Quiz table: sequence of rows, id = position
    Interaction,   \* the UserQuestionInteraction table: sequence of rows
    User,          \* the User table: user id -> cumulative counters
    Leaderboard,   \* the Leaderboard table: user id -> rank, 0 = no row
    pc,            \* where each invocation stands
    request,       \* each invocation's request
    userId,        \* POST's userId
    quiz,          \* POST's quiz.id, 0 before the create
    users,         \* updateLeaderboardRanks' users
    i,             \* updateLeaderboardRanks' loop index, from 1
    response,      \* what each invocation returned
    thrownAt,      \* the statement whose exception ended the invocation
    writes,        \* the tables each invocation has written
    logs,          \* logger: each invocation's log requests and their fate
    fetched,       \* the invocations in the order of their findMany
    seen,          \* the User table as each invocation's findMany read it
    rankFrom       \* per user, the invocation whose snapshot wrote the rank

\* src/app/api/ai/questions/route.ts: the two question-generation handlers.
VARIABLES
    genAI,             \* the Gemini client exists (GEMINI_API_KEY is set)
    aiPc,              \* where each generation request stands
    aiRequest,         \* its handler and the category of its body
    retryCount,        \* POST's retryCount
    calls,             \* how often it called model.generateContent
    text,              \* the output of its latest call
    aiResponse,        \* what it returned
    aiLogs,            \* the log requests it issued
    cache,             \* memoizedCleanJsonResponse's cache
    categoryNameCache, \* the category ids whose name is cached
    promptCache        \* the categories whose prompt is cached

\* src/middleware.ts: the page requests.
VARIABLES
    mwPc,              \* where each page request stands
    path,              \* request.nextUrl.pathname
    token,             \* the value of the token cookie
    apiData,           \* what the auth endpoint answered
    outcome            \* what the middleware returned

ai == <<genAI, aiPc, aiRequest, retryCount, calls, text, aiResponse, aiLogs, cache,
        categoryNameCache, promptCache>>
mw == <<mwPc, path, token, apiData, outcome>>
\* The state of the other entry points, which a quiz submission leaves alone.
elsewhere == <<ai, mw>>

vars == <<jwtSecret, Quiz, Interaction, User, Leaderboard, pc, request, userId,
          quiz, users, i, response, thrownAt, writes, logs, fetched, seen,
          rankFrom, ai, mw>>

db == <<Quiz, Interaction, User, Leaderboard>>
locals == <<userId, quiz, users, i>>
history == <<fetched, seen, rankFrom>>

NoRequest == [token |-> NoToken, body |-> Unparsable]

\* Accessors of a body the schema accepted.
Field(body, f) == body.fields[f].value
Questions(body) == body.fields["questions"].items

\* No log request issued yet.
NoLogs == [issued |-> 0, saved |-> 0, notOk |-> 0, rejected |-> 0]

\* A user that has not played: all four counters at zero.
ZeroCounters ==
    [total_play_count |-> 0, total_score |-> 0,
     total_questions_attempted |-> 0, total_correct_answers |-> 0]

InitQuizzes ==
    /\ jwtSecret \in BOOLEAN
    /\ Quiz = <<>>
    /\ Interaction = <<>>
    /\ User = [u \in Users |-> ZeroCounters]
    /\ Leaderboard = [u \in Users |-> 0]
    /\ pc = [p \in Submissions |-> "idle"]
    /\ request = [p \in Submissions |-> NoRequest]
    /\ userId = [p \in Submissions |-> 0]
    /\ quiz = [p \in Submissions |-> 0]
    /\ users = [p \in Submissions |-> <<>>]
    /\ i = [p \in Submissions |-> 0]
    /\ response = [p \in Submissions |-> NoResponse]
    /\ thrownAt = [p \in Submissions |-> "none"]
    /\ writes = [p \in Submissions |-> {}]
    /\ logs = [p \in Submissions |-> NoLogs]
    /\ fetched = <<>>
    /\ seen = [p \in Submissions |-> [u \in Users |-> ZeroCounters]]
    /\ rankFrom = [u \in Users |-> 0]

\* ------------------------------- src/app/api/ai/questions/route.ts: values
NumGenerations == 2     \* generation requests
maxRetries == 3         \* const maxRetries = 3
NotFoundStatus == 404
CategoryMissingStatus == 400

Generations == 1..NumGenerations
Handlers == {"questions", "custom-questions"}
\* The Category table, and what the category of a body may be: absent (0),
\* a stored category, or one that is not stored.
Category == {1}
CategoryRefs == {0} \cup Category \cup {Cardinality(Category) + 1}

\* One question of the generated JSON: whether it has a text, the option
\* letters that are present, and its correct_option.
OptionLetters == {"A", "B", "C", "D"}
GoodQuestion == [question |-> TRUE, options |-> OptionLetters, correct_option |-> "A"]
NoOptionD == [question |-> TRUE, options |-> {"A", "B", "C"}, correct_option |-> "A"]
WrongLetter == [question |-> TRUE, options |-> OptionLetters, correct_option |-> "E"]
NoQuestionText == [question |-> FALSE, options |-> OptionLetters, correct_option |-> "B"]

\* The value of jsonData.questions: an array of questions, or anything else.
QuestionsArray(items) == [isArray |-> TRUE, items |-> items]
NotAnArray == [isArray |-> FALSE, items |-> <<>>]
Generated ==
    {NotAnArray, QuestionsArray(<<>>), QuestionsArray(<<GoodQuestion>>),
     QuestionsArray(<<GoodQuestion, NoOptionD>>), QuestionsArray(<<WrongLetter>>),
     QuestionsArray(<<GoodQuestion, NoQuestionText>>)}

\* What a call of the model gives: it rejects, or it resolves with a text
\* that holds no braces, braces around something that is not JSON, or a JSON
\* object, bare or inside a ```json fence.
Rejected == [kind |-> "rejected", fenced |-> FALSE, json |-> "none", questions |-> NotAnArray]
Text(fenced, json, questions) ==
    [kind |-> "text", fenced |-> fenced, json |-> json, questions |-> questions]
Outputs ==
    {Rejected, Text(FALSE, "none", NotAnArray), Text(TRUE, "malformed", NotAnArray)}
    \cup { Text(FALSE, "object", qs) : qs \in Generated }
    \cup {Text(TRUE, "object", QuestionsArray(<<GoodQuestion>>))}

\* Lines 20-38: cleanJsonResponse strips the fence, finds the braces and
\* parses what is between them; it throws unless that is a JSON object.
Thrown == [ok |-> FALSE, questions |-> NotAnArray]
cleanJsonResponse(t) ==
    IF t.json = "object" THEN [ok |-> TRUE, questions |-> t.questions] ELSE Thrown

\* Lines 46-67: validateQuestions accepts a non-empty array whose every
\* question has a text, the four options and a correct_option among them.
validateQuestions(questions) ==
    /\ questions.isArray
    /\ questions.items # <<>>
    /\ \A k \in DOMAIN questions.items :
          /\ questions.items[k].question
          /\ questions.items[k].options = OptionLetters
          /\ questions.items[k].correct_option \in OptionLetters

NoAIRequest == [handler |-> "none", category |-> 0]
NoAIResponse == [status |-> 0, message |-> "none"]
AIResponse(status, message) == [status |-> status, message |-> message]

InitAI(keys) ==
    /\ genAI \in keys
    /\ aiPc = [r \in Generations |-> "idle"]
    /\ aiRequest = [r \in Generations |-> NoAIRequest]
    /\ retryCount = [r \in Generations |-> 0]
    /\ calls = [r \in Generations |-> 0]
    /\ text = [r \in Generations |-> Rejected]
    /\ aiResponse = [r \in Generations |-> NoAIResponse]
    /\ aiLogs = [r \in Generations |-> 0]
    /\ cache = {}
    /\ categoryNameCache = {}
    /\ promptCache = {}

\* ------------------------------------------------ src/middleware.ts: values
NumPageRequests == 2    \* page requests

PageRequests == 1..NumPageRequests

\* A path is the sequence of its characters.
\* Lines 9-32: the three lists of path prefixes.
protectedPaths ==
    { <<"/", "d", "a", "s", "h", "b", "o", "a", "r", "d", "/", "p", "r", "o", "f", "i", "l", "e">>,
      <<"/", "d", "a", "s", "h", "b", "o", "a", "r", "d", "/", "l", "e", "a", "d", "e", "r", "b", "o", "a", "r", "d">>,
      <<"/", "p", "l", "a", "y">>,
      <<"/", "p", "l", "a", "y", "/", "q", "u", "i", "z">>,
      <<"/", "p", "l", "a", "y", "/", "q", "u", "i", "z", "/", "r", "e", "s", "u", "l", "t">>,
      <<"/", "p", "l", "a", "y", "/", "q", "u", "i", "z", "/", "s", "t", "a", "r", "t">>,
      <<"/", "p", "l", "a", "y", "/", "q", "u", "i", "z", "/", "c", "l", "a", "s", "s", "i", "c">>,
      <<"/", "p", "l", "a", "y", "/", "a", "i", "/", "q", "u", "i", "z">>,
      <<"/", "p", "l", "a", "y", "/", "a", "i", "/", "r", "e", "s", "u", "l", "t">>,
      <<"/", "p", "l", "a", "y", "/", "a", "i", "p", "l", "u", "s", "/", "q", "u", "i", "z">>,
      <<"/", "p", "l", "a", "y", "/", "a", "i", "p", "l", "u", "s", "/", "r", "e", "s", "u", "l", "t">> }
adminPaths ==
    { <<"/", "a", "d", "m", "i", "n">>,
      <<"/", "a", "d", "m", "i", "n", "/", "l", "o", "g", "s">>,
      <<"/", "a", "d", "m", "i", "n", "/", "f", "e", "e", "d", "b", "a", "c", "k">>,
      <<"/", "a", "d", "m", "i", "n", "/", "u", "s", "e", "r", "s">>,
      <<"/", "a", "d", "m", "i", "n", "/", "q", "u", "e", "s", "t", "i", "o", "n", "s">>,
      <<"/", "a", "d", "m", "i", "n", "/", "c", "a", "t", "e", "g", "o", "r", "i", "e", "s">> }
authPaths == { <<"/", "a", "u", "t", "h">> }
Root == <<"/">>
ApiPrefix == <<"/", "a", "p", "i">>

\* The paths requested.
Paths ==
    { <<"/">>,
      <<"/", "a", "p", "i", "/", "a", "u", "t", "h">>,
      <<"/", "a", "d", "m", "i", "n">>,
      <<"/", "a", "d", "m", "i", "n", "/", "u", "s", "e", "r", "s">>,
      <<"/", "a", "d", "m", "i", "n", "i", "s", "t", "r", "a", "t", "o", "r">>,
      <<"/", "a", "u", "t", "h">>,
      <<"/", "p", "l", "a", "y", "/", "q", "u", "i", "z">>,
      <<"/", "d", "a", "s", "h", "b", "o", "a", "r", "d">>,
      <<"/", "a", "b", "o", "u", "t">> }
\* The token cookie: no cookie, an empty value, a value.
TokenValues == {"absent", "", "token"}

\* String.prototype.startsWith.
StartsWith(p, prefix) ==
    Len(prefix) <= Len(p) /\ SubSeq(p, 1, Len(prefix)) = prefix
\* !token
NoTokenValue(t) == t \in {"absent", ""}

\* What the auth endpoint's answer parses to: null, or an object whose
\* success, data and data.user are truthy or not, with the user's role.
NoAnswer == [kind |-> "none", success |-> FALSE, data |-> FALSE, user |-> FALSE, role |-> "none"]
Null == [kind |-> "null", success |-> FALSE, data |-> FALSE, user |-> FALSE, role |-> "none"]
Answers ==
    {Null} \cup
    { [kind |-> "object", success |-> ok, data |-> d, user |-> d /\ u,
       role |-> IF d /\ u THEN role ELSE "none"] :
        ok \in BOOLEAN, d \in BOOLEAN, u \in BOOLEAN, role \in {"admin", "user"} }
\* How the call of the auth endpoint ended without a parsed answer.
Failed(kind) == [NoAnswer EXCEPT !.kind = kind]

InitMiddleware ==
    /\ mwPc = [r \in PageRequests |-> "idle"]
    /\ path = [r \in PageRequests |-> <<>>]
    /\ token = [r \in PageRequests |-> "absent"]
    /\ apiData = [r \in PageRequests |-> NoAnswer]
    /\ outcome = [r \in PageRequests |-> "none"]

Init == InitQuizzes /\ InitAI({TRUE}) /\ InitMiddleware

\* src/lib/logger.ts, lines 187-225: info and error build the record and call
\* saveLog without awaiting it; n requests leave for the sink.
Log(p, n) == logs' = [logs EXCEPT ![p].issued = @ + n]

\* The catch block of POST: logger.error (line 184), then the invocation
\* ends with the error's response. An exception out of updateLeaderboardRanks
\* was logged there as well (line 64).
Catch(p, at, resp) ==
    /\ pc' = [pc EXCEPT ![p] = "done"]
    /\ response' = [response EXCEPT ![p] = resp]
    /\ thrownAt' = [thrownAt EXCEPT ![p] = at]
    /\ Log(p, IF at = "updateLeaderboardRanks" THEN 2 ELSE 1)

Goto(p, label) ==
    /\ pc' = [pc EXCEPT ![p] = label]
    /\ UNCHANGED <<response, thrownAt, logs>>

\* --------------------------------------------------- POST, lines 94-123
\* Invocations are interchangeable, so they are numbered in the order in
\* which their requests arrive.
Arrives(p) == pc[p] = "idle" /\ \A q \in Submissions : q < p => pc[q] # "idle"

\* Lines 96-101: no token cookie.
TokenMissing(p) ==
    /\ Arrives(p)
    /\ request' = [request EXCEPT ![p].token = NoToken]
    /\ Catch(p, "token", ErrorResponse(AuthenticationErrorStatus, "AuthenticationError"))
    /\ UNCHANGED <<elsewhere, jwtSecret, history, db, locals, writes>>

\* Lines 104-107: a token, but no JWT_SECRET in the environment.
SecretMissing(p) ==
    /\ Arrives(p)
    /\ ~jwtSecret
    /\ \E t \in Tokens \ {NoToken} : request' = [request EXCEPT ![p].token = t]
    /\ Catch(p, "JWT_SECRET", ErrorResponse(APIErrorStatus, "APIError"))
    /\ UNCHANGED <<elsewhere, jwtSecret, history, db, locals, writes>>

\* Line 110: jwt.verify throws a JsonWebTokenError, which is no APIError, so
\* the catch block answers with its generic error (lines 192-202).
VerifyResponse == InternalServerError

VerifyFails(p) ==
    /\ Arrives(p)
    /\ jwtSecret
    /\ request' = [request EXCEPT ![p].token = BadToken]
    /\ Catch(p, "jwt.verify", VerifyResponse)
    /\ UNCHANGED <<elsewhere, jwtSecret, history, db, locals, writes>>

\* Lines 110-116: the token verifies; request.json() is awaited.
Verify(p) ==
    /\ Arrives(p)
    /\ jwtSecret
    /\ \E u \in Users :
          /\ request' = [request EXCEPT ![p].token = SignedToken(u)]
          /\ userId' = [userId EXCEPT ![p] = u]
    /\ Goto(p, "json")
    /\ UNCHANGED <<elsewhere, jwtSecret, history, db, quiz, users, i, writes>>

\* Lines 115-119: the body is not JSON.
JsonFails(p) ==
    /\ pc[p] = "json"
    /\ request' = [request EXCEPT ![p].body = Unparsable]
    /\ Catch(p, "request.json", ErrorResponse(ValidationErrorStatus, "ValidationError"))
    /\ UNCHANGED <<elsewhere, jwtSecret, history, db, locals, writes>>

\* Line 122: quizSchema.parse throws a ZodError, which is no APIError.
SchemaResponse == InternalServerError

\* Lines 116-122 for a body drawn from the set B: the schema rejects it.
ParseFailsFrom(p, B) ==
    /\ pc[p] = "json"
    /\ \E b \in B \ {Unparsable} :
          /\ ~quizSchema(b)
          /\ request' = [request EXCEPT ![p].body = b]
    /\ Catch(p, "quizSchema.parse", SchemaResponse)
    /\ UNCHANGED <<elsewhere, jwtSecret, history, db, locals, writes>>

\* Lines 116-126 for a body drawn from the set B: it parses and validates;
\* quiz.create is issued.
ParseFrom(p, B) ==
    /\ pc[p] = "json"
    /\ \E b \in B \ {Unparsable} :
          /\ quizSchema(b)
          /\ request' = [request EXCEPT ![p].body = b]
    /\ Goto(p, "quiz.create")
    /\ UNCHANGED <<elsewhere, jwtSecret, history, db, locals, writes>>

\* The client's payloads: counts that describe the questions array.
ParseFails(p) == ParseFailsFrom(p, Bodies)
Parse(p) == ParseFrom(p, Bodies)

\* Any payload a caller can send.
ParseFailsAny(p) == ParseFailsFrom(p, AnyBodies)
ParseAny(p) == ParseFrom(p, AnyBodies)

\* --------------------------------------------------- POST, lines 125-159
\* QuizRow with the score column taken from the wrong payload field.
QuizRowWrongScore(p) ==
    [id |-> Len(Quiz) + 1,
     user_id |-> userId[p],
     category_id |-> Field(request[p].body, "categoryId"),
     total_questions |-> Field(request[p].body, "totalQuestions"),
     correct_answers |-> Field(request[p].body, "correctAnswers"),
     incorrect_answers |-> Field(request[p].body, "incorrectAnswers"),
     score |-> Field(request[p].body, "totalQuestions") + Field(request[p].body, "score")]

\* Lines 127-134: the row prisma.quiz.create inserts.
QuizRow(p) ==
    [id |-> Len(Quiz) + 1,
     user_id |-> userId[p],
     category_id |-> Field(request[p].body, "categoryId"),
     total_questions |-> Field(request[p].body, "totalQuestions"),
     correct_answers |-> Field(request[p].body, "correctAnswers"),
     incorrect_answers |-> Field(request[p].body, "incorrectAnswers"),
     score |-> Field(request[p].body, "score")]

\* QuizCreate as an upsert on a fixed id: the row stored first is replaced.
QuizCreateOverwrites(p) ==
    /\ pc[p] = "quiz.create"
    /\ Quiz' = <<[QuizRow(p) EXCEPT !.id = 1]>>
    /\ quiz' = [quiz EXCEPT ![p] = 1]
    /\ writes' = [writes EXCEPT ![p] = @ \cup {"Quiz"}]
    /\ Goto(p, "createMany")
    /\ UNCHANGED <<elsewhere, jwtSecret, history, Interaction, User, Leaderboard, request, userId, users, i>>

\* Lines 126-135: prisma.quiz.create inserts the row and returns it.
QuizCreate(p) ==
    /\ pc[p] = "quiz.create"
    /\ Quiz' = Append(Quiz, QuizRow(p))
    /\ quiz' = [quiz EXCEPT ![p] = Len(Quiz) + 1]
    /\ writes' = [writes EXCEPT ![p] = @ \cup {"Quiz"}]
    /\ Goto(p, "createMany")
    /\ UNCHANGED <<elsewhere, jwtSecret, history, Interaction, User, Leaderboard, request, userId, users, i>>

\* QuizCreateFails with the exception swallowed: the handler goes on to the
\* interactions without a quiz.
QuizCreateFailsSwallowed(p) ==
    /\ pc[p] = "quiz.create"
    /\ pc' = [pc EXCEPT ![p] = "createMany"]
    /\ thrownAt' = [thrownAt EXCEPT ![p] = "quiz.create"]
    /\ UNCHANGED <<elsewhere, jwtSecret, history, db, request, locals, response, writes, logs>>

\* Lines 126, 179-202: the insert throws; the catch block answers.
QuizCreateFails(p) ==
    /\ pc[p] = "quiz.create"
    /\ Catch(p, "quiz.create", InternalServerError)
    /\ UNCHANGED <<elsewhere, jwtSecret, history, db, request, locals, writes>>

\* InteractionRows with the rows left unlinked from the quiz just created.
InteractionRowsUnlinked(p) ==
    [k \in DOMAIN Questions(request[p].body) |->
        [id |-> Len(Interaction) + k,
         user_id |-> userId[p],
         question_id |-> Questions(request[p].body)[k].fields["id"].value,
         quiz_id |-> 0,
         is_correct |-> Questions(request[p].body)[k].fields["isCorrect"].value,
         user_answer |-> Questions(request[p].body)[k].fields["userAnswer"].value]]

\* InteractionRows with the rows stamped with another user than the caller.
InteractionRowsWrongUser(p) ==
    [k \in DOMAIN Questions(request[p].body) |->
        [id |-> Len(Interaction) + k,
         user_id |-> (userId[p] % NumUsers) + 1,
         question_id |-> Questions(request[p].body)[k].fields["id"].value,
         quiz_id |-> quiz[p],
         is_correct |-> Questions(request[p].body)[k].fields["isCorrect"].value,
         user_answer |-> Questions(request[p].body)[k].fields["userAnswer"].value]]

\* Lines 139-146: the rows of the batch, in the order of body.questions.
InteractionRows(p) ==
    [k \in DOMAIN Questions(request[p].body) |->
        [id |-> Len(Interaction) + k,
         user_id |-> userId[p],
         question_id |-> Questions(request[p].body)[k].fields["id"].value,
         quiz_id |-> quiz[p],
         is_correct |-> Questions(request[p].body)[k].fields["isCorrect"].value,
         user_answer |-> Questions(request[p].body)[k].fields["userAnswer"].value]]

\* The identity-defining key of an interaction: who answered which
\* question in which quiz. The generated id is no part of it.
InteractionKey(row) == <<row.user_id, row.question_id, row.quiz_id>>

\* SkipDuplicates with the generated id as the only unique key.
RECURSIVE SkipDuplicatesById(_, _)
SkipDuplicatesById(stored, rows) ==
    IF rows = <<>> THEN stored
    ELSE SkipDuplicatesById(
            IF \E k \in DOMAIN stored : stored[k].id = Head(rows).id
            THEN stored ELSE Append(stored, Head(rows)),
            Tail(rows))

\* Line 147: skipDuplicates drops the rows that collide on the unique key
\* with a stored row or with an earlier row of the batch.
RECURSIVE SkipDuplicates(_, _)
SkipDuplicates(stored, rows) ==
    IF rows = <<>> THEN stored
    ELSE SkipDuplicates(
            IF \E k \in DOMAIN stored : InteractionKey(stored[k]) = InteractionKey(Head(rows))
            THEN stored ELSE Append(stored, Head(rows)),
            Tail(rows))

\* The batch's foreign key to Question holds for every row.
QuestionsExist(p) ==
    \A k \in DOMAIN InteractionRows(p) : InteractionRows(p)[k].question_id \in Question

\* Lines 138-148: createMany is one INSERT statement.
CreateMany(p) ==
    /\ pc[p] = "createMany"
    /\ QuestionsExist(p)
    /\ Interaction' = SkipDuplicates(Interaction, InteractionRows(p))
    /\ writes' = [writes EXCEPT ![p] = @ \cup {"UserQuestionInteraction"}]
    /\ Goto(p, "user.update")
    /\ UNCHANGED <<elsewhere, jwtSecret, history, Quiz, User, Leaderboard, request, locals>>

\* Lines 138-148 executed once more for the quiz id the invocation already
\* holds: the identical batch is inserted a second time.
Resubmitted == "UserQuestionInteraction, again"

CreateManyAgain(p) ==
    /\ "UserQuestionInteraction" \in writes[p]
    /\ Resubmitted \notin writes[p]
    /\ QuestionsExist(p)
    /\ Interaction' = SkipDuplicates(Interaction, InteractionRows(p))
    /\ writes' = [writes EXCEPT ![p] = @ \cup {Resubmitted}]
    /\ UNCHANGED <<elsewhere, jwtSecret, history, Quiz, User, Leaderboard, request, locals,
                   pc, response, thrownAt, logs>>

\* Lines 138-148, 179-202: a row references a question that does not exist.
\* The statement violates the foreign key and inserts nothing (skipDuplicates
\* covers unique keys only); the exception reaches the catch block.
CreateManyForeignKey(p) ==
    /\ pc[p] = "createMany"
    /\ ~QuestionsExist(p)
    /\ Catch(p, "createMany", InternalServerError)
    /\ UNCHANGED <<elsewhere, jwtSecret, history, db, request, locals, writes>>

\* CreateManyFails with the exception swallowed: the handler goes on to the
\* aggregate update.
CreateManyFailsSwallowed(p) ==
    /\ pc[p] = "createMany"
    /\ QuestionsExist(p)
    /\ pc' = [pc EXCEPT ![p] = "user.update"]
    /\ thrownAt' = [thrownAt EXCEPT ![p] = "createMany"]
    /\ UNCHANGED <<elsewhere, jwtSecret, history, db, request, locals, response, writes, logs>>

\* Lines 138, 179-202: the statement fails for any other reason.
CreateManyFails(p) ==
    /\ pc[p] = "createMany"
    /\ QuestionsExist(p)
    /\ Catch(p, "createMany", InternalServerError)
    /\ UNCHANGED <<elsewhere, jwtSecret, history, db, request, locals, writes>>

\* Increment with the counters set from the payload instead of incremented.
IncrementOverwrites(row, body) ==
    [total_play_count |-> 1,
     total_score |-> Field(body, "score"),
     total_questions_attempted |-> Field(body, "totalQuestions"),
     total_correct_answers |-> Field(body, "correctAnswers")]

\* Lines 154-157: the four atomic increments of one UPDATE statement.
Increment(row, body) ==
    [total_play_count |-> row.total_play_count + 1,
     total_score |-> row.total_score + Field(body, "score"),
     total_questions_attempted |->
        row.total_questions_attempted + Field(body, "totalQuestions"),
     total_correct_answers |->
        row.total_correct_answers + Field(body, "correctAnswers")]

\* UserUpdate without its where clause: every user's counters are incremented.
UserUpdateAll(p) ==
    /\ pc[p] = "user.update"
    /\ User' = [u \in Users |-> Increment(User[u], request[p].body)]
    /\ writes' = [writes EXCEPT ![p] = @ \cup {"User"}]
    /\ Goto(p, "findMany")
    /\ UNCHANGED <<elsewhere, jwtSecret, history, Quiz, Interaction, Leaderboard, request, locals>>

\* Lines 151-162: prisma.user.update; updateLeaderboardRanks is called.
UserUpdate(p) ==
    /\ pc[p] = "user.update"
    /\ User' = [User EXCEPT ![userId[p]] = Increment(@, request[p].body)]
    /\ writes' = [writes EXCEPT ![p] = @ \cup {"User"}]
    /\ Goto(p, "findMany")
    /\ UNCHANGED <<elsewhere, jwtSecret, history, Quiz, Interaction, Leaderboard, request, locals>>

\* UserUpdateFails with the exception swallowed: the recompute still runs.
UserUpdateFailsSwallowed(p) ==
    /\ pc[p] = "user.update"
    /\ pc' = [pc EXCEPT ![p] = "findMany"]
    /\ thrownAt' = [thrownAt EXCEPT ![p] = "user.update"]
    /\ UNCHANGED <<elsewhere, jwtSecret, history, db, request, locals, response, writes, logs>>

\* Lines 151, 179-202: the update throws; the catch block answers.
UserUpdateFails(p) ==
    /\ pc[p] = "user.update"
    /\ Catch(p, "user.update", InternalServerError)
    /\ UNCHANGED <<elsewhere, jwtSecret, history, db, request, locals, writes>>

\* ------------------------------------- updateLeaderboardRanks, lines 33-71
\* Lines 37-41: the users that played at least one quiz.
Qualifying == { u \in Users : User[u].total_play_count > 0 }

\* OrderedByScore with orderBy total_score ascending.
RECURSIVE OrderedByScoreAscending(_)
OrderedByScoreAscending(S) ==
    IF S = {} THEN {<<>>}
    ELSE UNION { { <<u>> \o rest : rest \in OrderedByScoreAscending(S \ {u}) } :
                 u \in { v \in S : \A w \in S : User[v].total_score <= User[w].total_score } }

\* OrderedByScore with the users of equal score left out after the first.
RECURSIVE OrderedByScoreDropsTies(_)
OrderedByScoreDropsTies(S) ==
    IF S = {} THEN {<<>>}
    ELSE UNION { { <<u>> \o rest :
                     rest \in OrderedByScoreDropsTies(
                        { w \in S : User[w].total_score < User[u].total_score }) } :
                 u \in { v \in S : \A w \in S : User[v].total_score >= User[w].total_score } }

\* Lines 42-44: every order of S by total_score descending; the database
\* leaves the order of equal scores open.
RECURSIVE OrderedByScore(_)
OrderedByScore(S) ==
    IF S = {} THEN {<<>>}
    ELSE UNION { { <<u>> \o rest : rest \in OrderedByScore(S \ {u}) } :
                 u \in { v \in S : \A w \in S : User[v].total_score >= User[w].total_score } }

\* Lines 36-51: prisma.user.findMany; the loop starts.
FindMany(p) ==
    /\ pc[p] = "findMany"
    /\ \E found \in OrderedByScore(Qualifying) :
          /\ users' = [users EXCEPT ![p] = found]
          /\ Goto(p, IF found = <<>> THEN "return" ELSE "upsert")
    /\ i' = [i EXCEPT ![p] = 1]
    /\ fetched' = Append(fetched, p)
    /\ seen' = [seen EXCEPT ![p] = User]
    /\ UNCHANGED <<elsewhere, jwtSecret, rankFrom, db, request, userId, quiz, writes>>

\* The error updateLeaderboardRanks throws (line 69) is an APIError, so the
\* catch block of POST returns it as the response (lines 192-194).
LeaderboardErrorResponse == ErrorResponse(APIErrorStatus, "LEADERBOARD_ERROR")

\* Lines 36, 63-70, 179-194: findMany throws.
FindManyFails(p) ==
    /\ pc[p] = "findMany"
    /\ Catch(p, "updateLeaderboardRanks", LeaderboardErrorResponse)
    /\ UNCHANGED <<elsewhere, jwtSecret, history, db, request, locals, writes>>

\* Lines 51-62: one iteration, prisma.leaderboard.upsert of users[i] (the
\* source counts i from 0 and stores i + 1).
Upsert(p) ==
    /\ pc[p] = "upsert"
    /\ Leaderboard' = [Leaderboard EXCEPT ![users[p][i[p]]] = i[p]]
    /\ i' = [i EXCEPT ![p] = @ + 1]
    /\ writes' = [writes EXCEPT ![p] = @ \cup {"Leaderboard"}]
    /\ rankFrom' = [rankFrom EXCEPT ![users[p][i[p]]] = p]
    /\ Goto(p, IF i[p] = Len(users[p]) THEN "return" ELSE "upsert")
    /\ UNCHANGED <<elsewhere, jwtSecret, fetched, seen, Quiz, Interaction, User, request, userId, quiz, users>>

\* UpsertFails with the failure caught inside the loop: the failing user is
\* skipped and the loop goes on with the next one.
UpsertFailsContinues(p) ==
    /\ pc[p] = "upsert"
    /\ i' = [i EXCEPT ![p] = @ + 1]
    /\ pc' = [pc EXCEPT ![p] = IF i[p] = Len(users[p]) THEN "return" ELSE "upsert"]
    /\ thrownAt' = [thrownAt EXCEPT ![p] = "updateLeaderboardRanks"]
    /\ UNCHANGED <<elsewhere, jwtSecret, history, db, request, userId, quiz, users, response,
                   writes, logs>>

\* UpsertFails with the failed recompute started over from its first user.
UpsertFailsRetries(p) ==
    /\ pc[p] = "upsert"
    /\ i' = [i EXCEPT ![p] = 1]
    /\ UNCHANGED <<elsewhere, jwtSecret, history, db, request, userId, quiz, users, pc, response,
                   thrownAt, writes, logs>>

\* Lines 52, 63-70, 179-194: an upsert throws; the ranks written so far stay.
UpsertFails(p) ==
    /\ pc[p] = "upsert"
    /\ Catch(p, "updateLeaderboardRanks", LeaderboardErrorResponse)
    /\ UNCHANGED <<elsewhere, jwtSecret, history, db, request, locals, writes>>

\* ReturnSuccess answering with the id of the newest Quiz row instead of the
\* id quiz.create returned.
ReturnSuccessNewestQuiz(p) ==
    /\ pc[p] = "return"
    /\ pc' = [pc EXCEPT ![p] = "done"]
    /\ response' = [response EXCEPT ![p] = SuccessResponse(Len(Quiz))]
    /\ Log(p, 1)
    /\ UNCHANGED <<elsewhere, jwtSecret, history, db, request, locals, thrownAt, writes>>

\* Lines 164-177: logger.info, then the success response.
ReturnSuccess(p) ==
    /\ pc[p] = "return"
    /\ pc' = [pc EXCEPT ![p] = "done"]
    /\ response' = [response EXCEPT ![p] = SuccessResponse(quiz[p])]
    /\ Log(p, 1)
    /\ UNCHANGED <<elsewhere, jwtSecret, history, db, request, locals, thrownAt, writes>>

\* The statements of POST after the payload is validated.
Statement(p) ==
        \/ QuizCreate(p)
        \/ QuizCreateFails(p)
        \/ CreateMany(p)
        \/ CreateManyForeignKey(p)
        \/ CreateManyFails(p)
        \/ UserUpdate(p)
        \/ UserUpdateFails(p)
        \/ FindMany(p)
        \/ FindManyFails(p)
        \/ Upsert(p)
        \/ UpsertFails(p)
        \/ ReturnSuccess(p)

\* The steps of POST before the payload is validated.
Credentials(p) ==
        \/ TokenMissing(p)
        \/ SecretMissing(p)
        \/ VerifyFails(p)
        \/ Verify(p)
        \/ JsonFails(p)

Next ==
    \E p \in Submissions :
        \/ Credentials(p)
        \/ ParseFails(p)
        \/ Parse(p)
        \/ Statement(p)

Spec == Init /\ [][Next]_vars

\* The steps of an invocation after its request arrived: each is the
\* continuation of an awaited operation that returned or failed.
Proceed(p) ==
    \/ JsonFails(p)
    \/ ParseFails(p)
    \/ Parse(p)
    \/ Statement(p)

\* Every awaited operation returns or fails, and the event loop then runs
\* the continuation.
FairSpec == Spec /\ \A p \in Submissions : WF_vars(Proceed(p))

\* One submission at a time: a step belongs to an invocation only while no
\* other invocation is between its arrival and its response.
Alone(p) == \A q \in Submissions \ {p} : pc[q] \in {"idle", "done"}

SequentialNext ==
    \E p \in Submissions :
        \/ Alone(p) /\ TokenMissing(p)
        \/ Alone(p) /\ SecretMissing(p)
        \/ Alone(p) /\ VerifyFails(p)
        \/ Alone(p) /\ Verify(p)
        \/ Alone(p) /\ JsonFails(p)
        \/ Alone(p) /\ ParseFails(p)
        \/ Alone(p) /\ Parse(p)
        \/ Alone(p) /\ QuizCreate(p)
        \/ Alone(p) /\ QuizCreateFails(p)
        \/ Alone(p) /\ CreateMany(p)
        \/ Alone(p) /\ CreateManyForeignKey(p)
        \/ Alone(p) /\ CreateManyFails(p)
        \/ Alone(p) /\ UserUpdate(p)
        \/ Alone(p) /\ UserUpdateFails(p)
        \/ Alone(p) /\ FindMany(p)
        \/ Alone(p) /\ FindManyFails(p)
        \/ Alone(p) /\ Upsert(p)
        \/ Alone(p) /\ UpsertFails(p)
        \/ Alone(p) /\ ReturnSuccess(p)

SequentialSpec == Init /\ [][SequentialNext]_vars

\* One submission whose payload is any the caller can send.
WideNext ==
    \E p \in {1} :
        \/ Credentials(p)
        \/ ParseFailsAny(p)
        \/ ParseAny(p)
        \/ Statement(p)

WideSpec == Init /\ [][WideNext]_vars

\* One submission of any payload, whose interaction batch the caller of the
\* bulk insert may insert a second time.
ResubmitNext ==
    \E p \in {1} :
        \/ Credentials(p)
        \/ ParseFailsAny(p)
        \/ ParseAny(p)
        \/ Statement(p)
        \/ CreateManyAgain(p)

ResubmitSpec == Init /\ [][ResubmitNext]_vars

\* ------------------------------------------ Logger.saveLog, lines 35-49
\* The log requests of p that the sink has not answered yet.
Pending(p) == logs[p].issued - logs[p].saved - logs[p].notOk - logs[p].rejected

\* What a step of saveLog leaves alone: everything but its own request.
submission == <<elsewhere, jwtSecret, history, db, request, locals, pc, response, thrownAt, writes>>

\* LogRejected with the rejection reaching the handler: the submission's
\* response becomes the catch block's error.
LogRejectedThrows(p) ==
    /\ Pending(p) > 0
    /\ logs' = [logs EXCEPT ![p].rejected = @ + 1]
    /\ response' = [response EXCEPT ![p] = InternalServerError]
    /\ UNCHANGED <<elsewhere, jwtSecret, history, db, request, locals, pc, thrownAt, writes>>

\* Lines 37-45: the fetch resolves with an OK status.
LogSaved(p) ==
    /\ Pending(p) > 0
    /\ logs' = [logs EXCEPT ![p].saved = @ + 1]
    /\ UNCHANGED submission

\* Lines 43-45: the fetch resolves with a status that is not OK; saveLog
\* writes to the console.
LogNotOk(p) ==
    /\ Pending(p) > 0
    /\ logs' = [logs EXCEPT ![p].notOk = @ + 1]
    /\ UNCHANGED submission

\* Lines 46-48: the fetch rejects; saveLog catches and writes to the console.
LogRejected(p) ==
    /\ Pending(p) > 0
    /\ logs' = [logs EXCEPT ![p].rejected = @ + 1]
    /\ UNCHANGED submission

\* Submissions one at a time, with the telemetry sink answering the log
\* requests at any later moment.
TelemetryNext ==
    \/ SequentialNext
    \/ \E p \in Submissions :
          \/ LogSaved(p)
          \/ LogNotOk(p)
          \/ LogRejected(p)

TelemetrySpec == Init /\ [][TelemetryNext]_vars

\* ----------------------- src/app/api/ai/questions/route.ts: the handlers
\* What a step of a generation request leaves alone.
quizzes == <<jwtSecret, Quiz, Interaction, User, Leaderboard, pc, request, userId,
             quiz, users, i, response, thrownAt, writes, logs, fetched, seen, rankFrom>>

\* Requests are interchangeable: they are numbered in their order of arrival.
AIArrives(r) == aiPc[r] = "idle" /\ \A q \in Generations : q < r => aiPc[q] # "idle"

\* The outer catch (lines 213-223, 409-419): logger.error, then the error
\* response; n more log requests were issued on the way.
AICatch(r, resp, n) ==
    /\ aiPc' = [aiPc EXCEPT ![r] = "done"]
    /\ aiResponse' = [aiResponse EXCEPT ![r] = resp]
    /\ aiLogs' = [aiLogs EXCEPT ![r] = @ + n + 1]

AIGoto(r, label) ==
    /\ aiPc' = [aiPc EXCEPT ![r] = label]
    /\ UNCHANGED <<aiResponse, aiLogs>>

\* Lines 132-133, 356-357: no API key, so no client.
KeyMissing(r) ==
    /\ AIArrives(r)
    /\ ~genAI
    /\ \E h \in Handlers : aiRequest' = [aiRequest EXCEPT ![r].handler = h]
    /\ AICatch(r, AIResponse(APIErrorStatus, "no API key"), 0)
    /\ UNCHANGED <<quizzes, mw, genAI, retryCount, calls, text, cache,
                   categoryNameCache, promptCache>>

\* Lines 132-136, 356-360: the client exists; request.json() is awaited.
Begin(r) ==
    /\ AIArrives(r)
    /\ genAI
    /\ \E h \in Handlers : aiRequest' = [aiRequest EXCEPT ![r].handler = h]
    /\ AIGoto(r, "json")
    /\ UNCHANGED <<quizzes, mw, genAI, retryCount, calls, text, cache,
                   categoryNameCache, promptCache>>

\* Lines 136, 360: the body is not JSON; the error is no APIError.
BodyFails(r) ==
    /\ aiPc[r] = "json"
    /\ AICatch(r, AIResponse(APIErrorStatus, "unexpected"), 0)
    /\ UNCHANGED <<quizzes, mw, genAI, aiRequest, retryCount, calls, text, cache,
                   categoryNameCache, promptCache>>

\* Lines 139-141, 363-365: the body has no category.
CategoryMissing(r) ==
    /\ aiPc[r] = "json"
    /\ aiRequest' = [aiRequest EXCEPT ![r].category = 0]
    /\ AICatch(r, AIResponse(CategoryMissingStatus, "no category"), 0)
    /\ UNCHANGED <<quizzes, mw, genAI, retryCount, calls, text, cache,
                   categoryNameCache, promptCache>>

\* Lines 143, 99-106: the category's name is cached, and the loop starts, or
\* prisma.category.findUnique is awaited.
Body(r) ==
    /\ aiPc[r] = "json"
    /\ aiRequest[r].handler = "questions"
    /\ \E c \in CategoryRefs \ {0} :
          /\ aiRequest' = [aiRequest EXCEPT ![r].category = c]
          /\ AIGoto(r, IF c \in categoryNameCache THEN "generateContent" ELSE "findUnique")
    /\ UNCHANGED <<quizzes, mw, genAI, retryCount, calls, text, cache,
                   categoryNameCache, promptCache>>

\* Lines 367-374, 303-338 (custom questions): getPrompt caches the prompt;
\* the loop starts.
CustomBody(r) ==
    /\ aiPc[r] = "json"
    /\ aiRequest[r].handler = "custom-questions"
    /\ \E c \in CategoryRefs \ {0} :
          /\ aiRequest' = [aiRequest EXCEPT ![r].category = c]
          /\ promptCache' = promptCache \cup {c}
    /\ AIGoto(r, "generateContent")
    /\ UNCHANGED <<quizzes, mw, genAI, retryCount, calls, text, cache, categoryNameCache>>

\* Lines 103-113: the category is stored; its name is cached.
FindUnique(r) ==
    /\ aiPc[r] = "findUnique"
    /\ aiRequest[r].category \in Category
    /\ categoryNameCache' = categoryNameCache \cup {aiRequest[r].category}
    /\ AIGoto(r, "generateContent")
    /\ UNCHANGED <<quizzes, mw, genAI, aiRequest, retryCount, calls, text, cache, promptCache>>

\* Lines 108-110: no such category.
CategoryNotFound(r) ==
    /\ aiPc[r] = "findUnique"
    /\ aiRequest[r].category \notin Category
    /\ AICatch(r, AIResponse(NotFoundStatus, "no such category"), 0)
    /\ UNCHANGED <<quizzes, mw, genAI, aiRequest, retryCount, calls, text, cache,
                   categoryNameCache, promptCache>>

\* Line 103: the query throws; the error is no APIError.
FindUniqueFails(r) ==
    /\ aiPc[r] = "findUnique"
    /\ AICatch(r, AIResponse(APIErrorStatus, "unexpected"), 0)
    /\ UNCHANGED <<quizzes, mw, genAI, aiRequest, retryCount, calls, text, cache,
                   categoryNameCache, promptCache>>

\* Lines 73-85: memoizedCleanJsonResponse answers from its cache, or calls
\* cleanJsonResponse; the custom-questions handler calls cleanJsonResponse.
Cached(t) == \E e \in cache : e.text = t
Cleaned(r, t) ==
    IF aiRequest[r].handler = "questions" /\ Cached(t)
    THEN (CHOOSE e \in cache : e.text = t).result
    ELSE cleanJsonResponse(t)
\* Line 82: a result is cached when cleanJsonResponse returned one.
Memoize(r, t) ==
    cache' = IF aiRequest[r].handler = "questions" /\ t.kind = "text" /\ Cleaned(r, t).ok
             THEN cache \cup {[text |-> t, result |-> Cleaned(r, t)]}
             ELSE cache

\* Lines 180-186, 376-382: an attempt gets through when the call resolves
\* and its text cleans, parses and validates.
Accepted(r, t) ==
    /\ t.kind = "text"
    /\ Cleaned(r, t).ok
    /\ validateQuestions(Cleaned(r, t).questions)

\* Lines 178-194, 374-391: an attempt gets through; the success is logged
\* and returned.
GenerateSucceeds(r) ==
    /\ aiPc[r] = "generateContent"
    /\ retryCount[r] < maxRetries
    /\ \E t \in Outputs :
          /\ Accepted(r, t)
          /\ text' = [text EXCEPT ![r] = t]
          /\ Memoize(r, t)
    /\ calls' = [calls EXCEPT ![r] = @ + 1]
    /\ aiPc' = [aiPc EXCEPT ![r] = "done"]
    /\ aiResponse' = [aiResponse EXCEPT ![r] = AIResponse(SuccessStatus, "questions")]
    /\ aiLogs' = [aiLogs EXCEPT ![r] = @ + 1]
    /\ UNCHANGED <<quizzes, mw, genAI, aiRequest, retryCount, categoryNameCache, promptCache>>

\* GenerateRetries with the counter left alone: the loop can go on for ever.
GenerateRetriesUncounted(r) ==
    /\ aiPc[r] = "generateContent"
    /\ retryCount[r] < maxRetries
    /\ \E t \in Outputs :
          /\ ~Accepted(r, t)
          /\ text' = [text EXCEPT ![r] = t]
          /\ Memoize(r, t)
    /\ calls' = [calls EXCEPT ![r] = @ + 1]
    /\ aiLogs' = [aiLogs EXCEPT ![r] = @ + 1]
    /\ UNCHANGED <<quizzes, mw, genAI, aiRequest, retryCount, aiPc, aiResponse,
                   categoryNameCache, promptCache>>

\* Lines 196-211, 393-407: an attempt fails and it was not the last one; the
\* failure is counted and logged, and the loop goes round.
GenerateRetries(r) ==
    /\ aiPc[r] = "generateContent"
    /\ retryCount[r] + 1 < maxRetries
    /\ \E t \in Outputs :
          /\ ~Accepted(r, t)
          /\ text' = [text EXCEPT ![r] = t]
          /\ Memoize(r, t)
    /\ calls' = [calls EXCEPT ![r] = @ + 1]
    /\ retryCount' = [retryCount EXCEPT ![r] = @ + 1]
    /\ aiLogs' = [aiLogs EXCEPT ![r] = @ + 1]
    /\ UNCHANGED <<quizzes, mw, genAI, aiRequest, aiPc, aiResponse,
                   categoryNameCache, promptCache>>

\* Lines 196-209, 213-223: the last attempt fails; the APIError thrown in the
\* inner catch reaches the outer catch, which returns it.
GenerateGivesUp(r) ==
    /\ aiPc[r] = "generateContent"
    /\ retryCount[r] + 1 = maxRetries
    /\ \E t \in Outputs :
          /\ ~Accepted(r, t)
          /\ text' = [text EXCEPT ![r] = t]
          /\ Memoize(r, t)
    /\ calls' = [calls EXCEPT ![r] = @ + 1]
    /\ retryCount' = [retryCount EXCEPT ![r] = @ + 1]
    /\ AICatch(r, AIResponse(APIErrorStatus, "gave up"), 1)
    /\ UNCHANGED <<quizzes, mw, genAI, aiRequest, categoryNameCache, promptCache>>

AINext ==
    \E r \in Generations :
        \/ KeyMissing(r)
        \/ Begin(r)
        \/ BodyFails(r)
        \/ CategoryMissing(r)
        \/ Body(r)
        \/ CustomBody(r)
        \/ FindUnique(r)
        \/ CategoryNotFound(r)
        \/ FindUniqueFails(r)
        \/ GenerateSucceeds(r)
        \/ GenerateRetries(r)
        \/ GenerateGivesUp(r)

\* The process may have been started with or without GEMINI_API_KEY.
AIInit == InitQuizzes /\ InitAI(BOOLEAN) /\ InitMiddleware

AISpec == AIInit /\ [][AINext]_vars

\* ------------------------------------------- src/middleware.ts: middleware
\* Requests are numbered in their order of arrival; a request arrives with a
\* path and a token cookie.
Requested(r, p, t) ==
    /\ mwPc[r] = "idle" /\ \A q \in PageRequests : q < r => mwPc[q] # "idle"
    /\ path' = [path EXCEPT ![r] = p]
    /\ token' = [token EXCEPT ![r] = t]

Return(r, result) ==
    /\ mwPc' = [mwPc EXCEPT ![r] = "done"]
    /\ outcome' = [outcome EXCEPT ![r] = result]

IsProtected(p) == \E pp \in protectedPaths : StartsWith(p, pp)
IsAdmin(p) == \E ap \in adminPaths : StartsWith(p, ap)
Bypassed(p) == p = Root \/ StartsWith(p, ApiPrefix)

\* Lines 80-84: a signed-in visitor of the auth page goes home; everything
\* else passes.
Last(p, t) ==
    IF p \in authPaths /\ ~NoTokenValue(t) THEN "redirect /" ELSE "next"

\* Lines 34-36: the home page and the API pass unchecked.
Bypass(r) ==
    /\ \E p \in Paths, t \in TokenValues : Bypassed(p) /\ Requested(r, p, t)
    /\ Return(r, "next")
    /\ UNCHANGED <<quizzes, ai, apiData>>

\* Lines 39-43: a protected page without a token.
ProtectedNoToken(r) ==
    /\ \E p \in Paths, t \in TokenValues :
          /\ ~Bypassed(p) /\ IsProtected(p) /\ NoTokenValue(t)
          /\ Requested(r, p, t)
    /\ Return(r, "redirect /auth")
    /\ UNCHANGED <<quizzes, ai, apiData>>

\* Lines 45-48: an admin page without a token.
AdminNoToken(r) ==
    /\ \E p \in Paths, t \in TokenValues :
          /\ ~Bypassed(p) /\ ~(IsProtected(p) /\ NoTokenValue(t))
          /\ IsAdmin(p) /\ NoTokenValue(t)
          /\ Requested(r, p, t)
    /\ Return(r, "redirect /auth")
    /\ UNCHANGED <<quizzes, ai, apiData>>

\* Lines 45-57: an admin page with a token; the auth endpoint is called.
AdminFetch(r) ==
    /\ \E p \in Paths, t \in TokenValues :
          /\ ~Bypassed(p) /\ ~(IsProtected(p) /\ NoTokenValue(t))
          /\ IsAdmin(p) /\ ~NoTokenValue(t)
          /\ Requested(r, p, t)
    /\ mwPc' = [mwPc EXCEPT ![r] = "fetch"]
    /\ UNCHANGED <<quizzes, ai, apiData, outcome>>

\* Lines 39-45, 80-84: any other page.
Other(r) ==
    /\ \E p \in Paths, t \in TokenValues :
          /\ ~Bypassed(p) /\ ~(IsProtected(p) /\ NoTokenValue(t)) /\ ~IsAdmin(p)
          /\ Requested(r, p, t)
          /\ Return(r, Last(p, t))
    /\ UNCHANGED <<quizzes, ai, apiData>>

\* Lines 52, 75-77: the call rejects.
FetchRejects(r) ==
    /\ mwPc[r] = "fetch"
    /\ apiData' = [apiData EXCEPT ![r] = Failed("rejected")]
    /\ Return(r, "redirect /auth")
    /\ UNCHANGED <<quizzes, ai, path, token>>

\* Lines 59-61: the endpoint answers with a status that is not OK.
ResponseNotOk(r) ==
    /\ mwPc[r] = "fetch"
    /\ apiData' = [apiData EXCEPT ![r] = Failed("not ok")]
    /\ Return(r, "redirect /auth")
    /\ UNCHANGED <<quizzes, ai, path, token>>

\* Lines 59-63: the endpoint answers OK; response.json() is awaited.
ResponseOk(r) ==
    /\ mwPc[r] = "fetch"
    /\ mwPc' = [mwPc EXCEPT ![r] = "json"]
    /\ UNCHANGED <<quizzes, ai, path, token, apiData, outcome>>

\* Lines 63, 75-77: the answer is not JSON.
JsonRejects(r) ==
    /\ mwPc[r] = "json"
    /\ apiData' = [apiData EXCEPT ![r] = Failed("not json")]
    /\ Return(r, "redirect /auth")
    /\ UNCHANGED <<quizzes, ai, path, token>>

\* Judge with the role left unchecked.
JudgeAnyRole(p, t, answer) ==
    IF answer.kind = "null" THEN "redirect /auth"
    ELSE IF ~answer.success \/ ~answer.data \/ ~answer.user THEN "redirect /auth"
    ELSE Last(p, t)

\* Lines 65-84: reading a property of null throws, which the catch turns
\* into a redirect; an answer without success, data or user redirects to
\* the auth page, a user who is no admin goes home, an admin goes on.
Judge(p, t, answer) ==
    IF answer.kind = "null" THEN "redirect /auth"
    ELSE IF ~answer.success \/ ~answer.data \/ ~answer.user THEN "redirect /auth"
    ELSE IF answer.role # "admin" THEN "redirect /"
    ELSE Last(p, t)

\* Lines 63-84: the answer is parsed and judged.
Answered(r) ==
    /\ mwPc[r] = "json"
    /\ \E answer \in Answers :
          /\ apiData' = [apiData EXCEPT ![r] = answer]
          /\ Return(r, Judge(path[r], token[r], answer))
    /\ UNCHANGED <<quizzes, ai, path, token>>

MiddlewareNext ==
    \E r \in PageRequests :
        \/ Bypass(r)
        \/ ProtectedNoToken(r)
        \/ AdminNoToken(r)
        \/ AdminFetch(r)
        \/ Other(r)
        \/ FetchRejects(r)
        \/ ResponseNotOk(r)
        \/ ResponseOk(r)
        \/ JsonRejects(r)
        \/ Answered(r)

MiddlewareSpec == Init /\ [][MiddlewareNext]_vars

\* ------------------------------------------------------------ properties
AllDone == \A p \in Submissions : pc[p] = "done"
Succeeded(p) == pc[p] = "done" /\ response[p].status = SuccessStatus

RECURSIVE Sum(_, _)
\* The sum of f[x] over the finite set S.
Sum(f, S) ==
    IF S = {} THEN 0
    ELSE LET x == CHOOSE y \in S : TRUE IN f[x] + Sum(f, S \ {x})

\* One Leaderboard row per qualifying user and none for the others.
OneEntryPerQualifyingUser == \A u \in Users : (Leaderboard[u] # 0) <=> (u \in Qualifying)
\* The ranks are 1..N, none twice.
DenseRanks ==
    /\ { Leaderboard[u] : u \in Qualifying } = 1..Cardinality(Qualifying)
    /\ \A u, v \in Qualifying : u # v => Leaderboard[u] # Leaderboard[v]
\* A higher total score has the smaller rank number.
RanksFollowScores ==
    \A u, v \in Qualifying :
        User[u].total_score > User[v].total_score => Leaderboard[u] < Leaderboard[v]
RankOneHasMaxScore ==
    \A u \in Qualifying :
        Leaderboard[u] = 1 => \A v \in Qualifying : User[u].total_score >= User[v].total_score

\* C1: once every submission has finished (and no recompute threw), the
\* stored ranks order the qualifying users exactly by their final total
\* scores, descending: one row per qualifying user, ranks 1..N, a higher
\* score before a lower one.
C1_FinalRanksFollowFinalScores ==
    (AllDone /\ \A p \in Submissions : thrownAt[p] # "updateLeaderboardRanks")
        => (OneEntryPerQualifyingUser /\ DenseRanks /\ RanksFollowScores)

\* C2: a submission whose quiz, interaction and aggregate writes committed
\* returns success with its quiz id, also when the recompute failed.
C2_CommittedSubmissionReturnsSuccess ==
    \A p \in Submissions :
        (pc[p] = "done" /\ {"Quiz", "UserQuestionInteraction", "User"} \subseteq writes[p])
            => response[p] = SuccessResponse(quiz[p])

\* The submissions of user u, and whether all of them that finished either
\* succeeded or failed before the recompute.
SubmissionsOf(u) == { p \in Submissions : userId[p] = u }
SuccessesOf(u) == { p \in SubmissionsOf(u) : Succeeded(p) }
PayloadField(f) ==
    [p \in Submissions |->
        IF quizSchema(request[p].body) THEN Field(request[p].body, f) ELSE 0]

\* C3: when all submissions have finished, a user none of whose submissions
\* failed in the recompute has play count N, the number of its successful
\* submissions, and score, questions attempted and correct answers equal to
\* the sums of those submissions' score, totalQuestions and correctAnswers.
C3_NoLostIncrement ==
    AllDone =>
        \A u \in Users :
            (\A p \in SubmissionsOf(u) : thrownAt[p] # "updateLeaderboardRanks") =>
                /\ User[u].total_play_count = Cardinality(SuccessesOf(u))
                /\ User[u].total_score = Sum(PayloadField("score"), SuccessesOf(u))
                /\ User[u].total_questions_attempted =
                       Sum(PayloadField("totalQuestions"), SuccessesOf(u))
                /\ User[u].total_correct_answers =
                       Sum(PayloadField("correctAnswers"), SuccessesOf(u))

\* Two submissions of one user both succeeded, with different payloads.
C3_Witness ==
    /\ AllDone
    /\ \E u \in Users :
          /\ Cardinality(SuccessesOf(u)) = NumSubmissions
          /\ \E p, q \in SuccessesOf(u) :
                /\ request[p].body # request[q].body
                /\ Field(request[p].body, "score") # Field(request[p].body, "totalQuestions")

\* No other submission is in flight, and none ended in a failed recompute.
OthersAtRest(p) ==
    \A q \in Submissions \ {p} :
        pc[q] \in {"idle", "done"} /\ thrownAt[q] # "updateLeaderboardRanks"

\* C4: whenever a submission is returning success, the Leaderboard has one
\* row per qualifying user, the ranks are 1..N without duplicate or gap, and
\* rank 1 is held by a user of maximum score. Stated for the moments at which
\* no other submission is in flight, the first of the two cases of the claim.
C4_LeaderboardWellFormedAtSuccess ==
    \A p \in Submissions :
        (pc[p] = "return" /\ OthersAtRest(p)) =>
            (OneEntryPerQualifyingUser /\ DenseRanks /\ RankOneHasMaxScore)

\* The rows stored for the quiz of submission p.
StoredInteractions(p) ==
    { k \in DOMAIN Interaction : Interaction[k].quiz_id = quiz[p] }
\* The elements of p's questions array whose question exists.
ExistingQuestions(p) ==
    { k \in DOMAIN Questions(request[p].body) :
        Questions(request[p].body)[k].fields["id"].value \in Question }

\* C5: a submission with an interaction on a question that does not exist
\* (and no other failure) succeeds: only that row is dropped, the quiz row is
\* recorded and the user's counters are incremented.
C5_MissingQuestionOnlyDropsItsRow ==
    \A p \in Submissions :
        (/\ pc[p] = "done"
         /\ quiz[p] # 0
         /\ ExistingQuestions(p) # DOMAIN Questions(request[p].body)
         /\ thrownAt[p] \notin {"user.update", "updateLeaderboardRanks"})
            => /\ response[p] = SuccessResponse(quiz[p])
               /\ Cardinality(StoredInteractions(p)) = Cardinality(ExistingQuestions(p))
               /\ "User" \in writes[p]

\* The Quiz rows of user u among the rows with the ids in S.
QuizRowsOf(u, S) == { id \in S : Quiz[id].user_id = u }
QuizColumn(c) == [id \in DOMAIN Quiz |-> Quiz[id][c]]
CountersMatch(u, S) ==
    /\ User[u].total_play_count = Cardinality(QuizRowsOf(u, S))
    /\ User[u].total_score = Sum(QuizColumn("score"), QuizRowsOf(u, S))
    /\ User[u].total_questions_attempted =
           Sum(QuizColumn("total_questions"), QuizRowsOf(u, S))
    /\ User[u].total_correct_answers =
           Sum(QuizColumn("correct_answers"), QuizRowsOf(u, S))

\* C6 as claimed: in every reachable state each user's counters equal the
\* count and the sums of the fields of all Quiz rows recorded for the user.
C6_CountersEqualAllQuizRows ==
    \A u \in Users : CountersMatch(u, DOMAIN Quiz)

\* The Quiz rows whose submission has committed its aggregate update.
AggregatedQuizzes == { quiz[p] : p \in { q \in Submissions : "User" \in writes[q] } }

\* C6 as amended: in every reachable state each user's counters equal the
\* count and the sums of the fields of the user's Quiz rows whose submission
\* has committed its aggregate update; the rows of submissions that are
\* between the two writes, or failed between them, are not counted.
C6_CountersEqualAggregatedQuizRows ==
    /\ AggregatedQuizzes \subseteq DOMAIN Quiz
    /\ \A u \in Users : CountersMatch(u, AggregatedQuizzes)

\* One user has a counted Quiz row and a row that will never be counted.
C6_Witness ==
    \E p, q \in Submissions :
        /\ userId[p] = userId[q]
        /\ "User" \in writes[p]
        /\ thrownAt[q] \in {"createMany", "user.update"}
        /\ Quiz[quiz[p]].score # Quiz[quiz[p]].total_questions

\* C7: a request without a credential, or with one that does not verify,
\* ends with a 401 AuthenticationError and writes nothing (on a server whose
\* JWT_SECRET is configured).
C7_BadCredentialIs401 ==
    \A p \in Submissions :
        (jwtSecret /\ pc[p] # "idle" /\ request[p].token.kind \in {"missing", "invalid"})
            => /\ pc[p] = "done"
               /\ response[p].status = AuthenticationErrorStatus
               /\ response[p].code = "AuthenticationError"
               /\ writes[p] = {}

\* C8: a body that is not JSON, or not of the schema's shape, ends the
\* request with a 400 ValidationError and writes nothing.
C8_BadPayloadIs400 ==
    \A p \in Submissions :
        (userId[p] # 0 /\ pc[p] \notin {"idle", "json"} /\ ~quizSchema(request[p].body))
            => /\ pc[p] = "done"
               /\ response[p].status = ValidationErrorStatus
               /\ response[p].code = "ValidationError"
               /\ writes[p] = {}

\* C9: when the aggregate update of a submission fails, the request ends
\* with a 500 error, the Quiz row and the Interaction rows it wrote stay
\* stored, and no leaderboard recompute is started for it.
C9_AggregateFailure ==
    \A p \in Submissions :
        thrownAt[p] = "user.update" =>
            /\ pc[p] = "done"
            /\ response[p].status = APIErrorStatus
            /\ quiz[p] \in DOMAIN Quiz
            /\ Quiz[quiz[p]].user_id = userId[p]
            /\ Cardinality(StoredInteractions(p)) = Len(Questions(request[p].body))
            /\ users[p] = <<>> /\ i[p] = 0
            /\ "Leaderboard" \notin writes[p]
            /\ "User" \notin writes[p]

\* An aggregate update failed after a batch of two interactions was stored,
\* and another submission has since recomputed the ranks.
C9_Witness ==
    \E p, q \in Submissions :
        /\ thrownAt[p] = "user.update"
        /\ Cardinality(StoredInteractions(p)) = 2
        /\ "Leaderboard" \in writes[q]

\* C10: when the Quiz row write of a submission fails, the submission ends
\* having written nothing: no Quiz row, no Interaction row (every stored
\* Interaction row belongs to a Quiz row that exists), no counter, no rank.
C10_QuizFailureLeavesNothing ==
    /\ \A p \in Submissions :
          thrownAt[p] = "quiz.create" =>
              /\ pc[p] = "done"
              /\ response[p].status = APIErrorStatus
              /\ quiz[p] = 0
              /\ writes[p] = {}
              /\ users[p] = <<>>
    /\ \A k \in DOMAIN Interaction : Interaction[k].quiz_id \in DOMAIN Quiz
    /\ Len(Quiz) = Cardinality({ p \in Submissions : "Quiz" \in writes[p] })
    /\ Len(Interaction) =
          Sum([p \in Submissions |->
                  IF "UserQuestionInteraction" \in writes[p]
                  THEN Len(Questions(request[p].body)) ELSE 0], Submissions)
    /\ \A u \in Users :
          User[u].total_play_count =
              Cardinality({ p \in SubmissionsOf(u) : "User" \in writes[p] })

\* A Quiz row write failed while another submission stored its rows.
C10_Witness ==
    \E p, q \in Submissions :
        /\ thrownAt[p] = "quiz.create"
        /\ "UserQuestionInteraction" \in writes[q]
        /\ userId[p] = userId[q]


\* The Quiz rows whose columns are p's user and p's payload fields.
QuizRowsMatching(p) ==
    { id \in DOMAIN Quiz :
        /\ Quiz[id].user_id = userId[p]
        /\ Quiz[id].category_id = Field(request[p].body, "categoryId")
        /\ Quiz[id].total_questions = Field(request[p].body, "totalQuestions")
        /\ Quiz[id].correct_answers = Field(request[p].body, "correctAnswers")
        /\ Quiz[id].incorrect_answers = Field(request[p].body, "incorrectAnswers")
        /\ Quiz[id].score = Field(request[p].body, "score") }
\* The submissions whose quiz.create committed.
QuizWriters == { q \in Submissions : "Quiz" \in writes[q] }

\* C11: a successful submission has created exactly one Quiz row (the table
\* holds one row per submission that wrote it, each under its own id), whose
\* owner, category, counts and score are the payload's; the Interaction rows
\* of that quiz are at most len(questions), each is one of the payload's
\* entries, and every Interaction row references the quiz of the submission
\* of the same user that inserted it.
C11_OneQuizRowAndItsInteractions ==
    /\ Len(Quiz) = Cardinality(QuizWriters)
    /\ \A p, q \in QuizWriters : p # q => quiz[p] # quiz[q]
    /\ \A k \in DOMAIN Interaction :
          \E q \in Submissions :
              /\ "UserQuestionInteraction" \in writes[q]
              /\ Interaction[k].quiz_id = quiz[q]
              /\ Interaction[k].user_id = userId[q]
    /\ \A p \in Submissions :
          Succeeded(p) =>
              /\ quiz[p] \in QuizRowsMatching(p)
              /\ response[p].quizId = quiz[p]
              /\ Cardinality(StoredInteractions(p)) <= Len(Questions(request[p].body))
              /\ \A k \in StoredInteractions(p) :
                    \E e \in DOMAIN Questions(request[p].body) :
                        Interaction[k].question_id =
                            Questions(request[p].body)[e].fields["id"].value

\* Two submissions with different payloads succeeded, one with two
\* interactions stored.
C11_Witness ==
    \E p, q \in Submissions :
        /\ Succeeded(p) /\ Succeeded(q)
        /\ request[p].body # request[q].body
        /\ Cardinality(StoredInteractions(p)) = MaxQuestions


\* Every submission is at rest: none is between its arrival and its response.
AtRest == \A p \in Submissions : pc[p] \in {"idle", "done"}
\* The qualifying users that stand before u by score, and those that do not
\* stand after it.
Higher(u) == { v \in Qualifying : User[v].total_score > User[u].total_score }
NotLower(u) == { v \in Qualifying : User[v].total_score >= User[u].total_score }

\* C12 as stated: with submissions processed one at a time and every one
\* of them successful, after each submission every qualifying user's rank is
\* 1 plus the number of qualifying users with a higher cumulative score.
C12_RankIsOnePlusHigherScores ==
    (AtRest /\ \A p \in Submissions : pc[p] = "done" => Succeeded(p))
        => \A u \in Qualifying : Leaderboard[u] = 1 + Cardinality(Higher(u))

\* C12, amended: with submissions processed one at a time and no recompute
\* failed, after each submission the ranks are the positions 1..N of the
\* qualifying users in an order by descending score: a user's rank lies
\* between 1 plus the number of users with a higher score and the number of
\* users whose score is not lower, so it is 1 plus the number of higher
\* scores exactly when no other user has the same score.
C12_RankIsPositionByScore ==
    (AtRest /\ \A p \in Submissions : thrownAt[p] # "updateLeaderboardRanks")
        => /\ OneEntryPerQualifyingUser
           /\ DenseRanks
           /\ \A u \in Qualifying :
                 /\ Leaderboard[u] >= 1 + Cardinality(Higher(u))
                 /\ Leaderboard[u] <= Cardinality(NotLower(u))

\* The scenario of the claim: A submits, then B submits a higher score;
\* B holds rank 1 and A rank 2.
C12_Witness ==
    /\ \A p \in Submissions : Succeeded(p)
    /\ \E a, b \in Users :
          /\ a # b
          /\ userId[1] = a /\ userId[NumSubmissions] = b
          /\ User[b].total_score > User[a].total_score
          /\ Leaderboard[b] = 1 /\ Leaderboard[a] = 2

\* C13: two recomputes that read the same user state hold the same ordered
\* list of users, so they assign every user the same rank.
C13_SameUserStateSameOrder ==
    \A p, q \in Submissions :
        (pc[p] \in {"upsert", "return"} /\ pc[q] \in {"upsert", "return"}
            /\ seen[p] = seen[q])
            => users[p] = users[q]

\* The recompute of p has completed, and no other submission is in flight.
RecomputeCompleted(p) == pc[p] = "return" /\ Alone(p)
\* The users that have a Leaderboard row.
Ranked == { u \in Users : Leaderboard[u] # 0 }

\* C14 as stated: after a recompute that completes with no other submission
\* in flight, of any two leaderboard entries the one with the smaller rank
\* number belongs to the user with the strictly greater score.
C14_RanksStrictlyDecreasingByScore ==
    \A p \in Submissions :
        RecomputeCompleted(p) =>
            \A u, v \in Ranked :
                Leaderboard[u] < Leaderboard[v] => User[u].total_score > User[v].total_score

\* C14, amended: after a recompute that ran with no other submission in
\* flight, no two entries share a rank, the entry with the smaller rank
\* number never has the smaller score, and a strictly greater score has the
\* strictly smaller rank number; two users of equal score hold two
\* consecutive ranks.
C14_RanksNonIncreasingByScore ==
    \A p \in Submissions :
        RecomputeCompleted(p) =>
            \A u, v \in Ranked :
                /\ u # v => Leaderboard[u] # Leaderboard[v]
                /\ Leaderboard[u] < Leaderboard[v] => User[u].total_score >= User[v].total_score
                /\ User[u].total_score > User[v].total_score => Leaderboard[u] < Leaderboard[v]

\* A recompute has completed over two users of different scores, after an
\* earlier submission had ranked the other user first.
C14_Witness ==
    \E p \in Submissions :
        /\ RecomputeCompleted(p)
        /\ \E q \in Submissions \ {p} : Succeeded(q) /\ userId[q] # userId[p]
        /\ \E u, v \in Ranked :
              Leaderboard[u] < Leaderboard[v] /\ User[u].total_score > User[v].total_score
        /\ Leaderboard[userId[p]] = 1


\* C15: every stored Quiz row has correct_answers + incorrect_answers <=
\* total_questions, whatever payload the validator accepted.
C15_CorrectPlusIncorrectWithinTotal ==
    \A id \in DOMAIN Quiz :
        Quiz[id].correct_answers + Quiz[id].incorrect_answers <= Quiz[id].total_questions

\* C16: no step decreases any of a user's four cumulative counters.
C16_CountersNeverDecrease ==
    [][\A u \in Users :
          /\ User'[u].total_play_count >= User[u].total_play_count
          /\ User'[u].total_questions_attempted >= User[u].total_questions_attempted
          /\ User'[u].total_correct_answers >= User[u].total_correct_answers
          /\ User'[u].total_score >= User[u].total_score]_vars

\* The body is an object whose questions array has no element.
EmptyQuestions(body) ==
    /\ body.type = "object"
    /\ "questions" \in DOMAIN body.fields
    /\ body.fields["questions"].type = "array"
    /\ body.fields["questions"].items = <<>>

\* C17: a submission whose questions array is empty writes nothing: it
\* creates no Quiz row and increments no counter.
C17_EmptyQuestionsWritesNothing ==
    \A p \in Submissions : EmptyQuestions(request[p].body) => writes[p] = {}


SinkAnswers(p) ==
    \/ logs'[p].saved # logs[p].saved
    \/ logs'[p].notOk # logs[p].notOk
    \/ logs'[p].rejected # logs[p].rejected

\* C19: the answer of the telemetry sink, a success, a status that is not
\* OK or a rejection alike, changes neither a response nor a table nor any
\* submission's progress; and the step that issues a log request ends the
\* invocation with its response while the request is still unanswered.
C19_TelemetryNeverChangesOutcome ==
    [][\A p \in Submissions :
          /\ SinkAnswers(p) =>
                /\ response' = response
                /\ <<Quiz, Interaction, User, Leaderboard>>' = <<Quiz, Interaction, User, Leaderboard>>
                /\ <<pc, writes, thrownAt>>' = <<pc, writes, thrownAt>>
          /\ logs'[p].issued > logs[p].issued =>
                /\ pc'[p] = "done"
                /\ response'[p] # NoResponse
                /\ logs'[p].issued - logs[p].issued <=
                      logs'[p].issued - logs'[p].saved - logs'[p].notOk - logs'[p].rejected]_vars

\* One submission succeeded and its log request was rejected; another ended
\* in a failed recompute, one of its two log requests got a status that is
\* not OK and the other was saved.
C19_Witness ==
    \E p, q \in Submissions :
        /\ Succeeded(p) /\ logs[p].rejected = 1
        /\ thrownAt[q] = "updateLeaderboardRanks"
        /\ logs[q].notOk = 1 /\ logs[q].saved = 1


\* The place of p's findMany among the fetches: a later fetch read a newer
\* snapshot of the user scores.
FetchOrder(p) == CHOOSE k \in DOMAIN fetched : fetched[k] = p

\* C20: a rank written for a user over a rank of another recompute comes
\* from the newer snapshot of the two: no recompute overwrites the rank
\* written by a recompute that fetched after it.
C20_NoStaleRankOverwrite ==
    [][\A u \in Users :
          (rankFrom[u] # 0 /\ rankFrom'[u] # rankFrom[u])
              => FetchOrder(rankFrom'[u]) > FetchOrder(rankFrom[u])]_vars


\* p's findMany has run.
Fetched(p) == \E k \in DOMAIN fetched : fetched[k] = p
\* The statements of POST in their order, and the place of each position of
\* an invocation in that order.
StepOrder == <<"idle", "json", "quiz.create", "createMany", "user.update",
               "findMany", "upsert", "return", "done">>
Place(label) == CHOOSE k \in DOMAIN StepOrder : StepOrder[k] = label

\* C21: within one submission the steps come in the order identity, payload
\* validation, Quiz create, Interaction insert, aggregate increment,
\* recompute, response: a step has run only if every earlier one succeeded,
\* and a failure before the recompute ends the invocation with exactly the
\* writes of the steps before the failing one.
C21_StepsInOrder ==
    \A p \in Submissions :
        /\ (Place(pc[p]) >= Place("json")
                /\ thrownAt[p] \notin {"token", "JWT_SECRET", "jwt.verify"})
              => userId[p] # 0
        /\ (Place(pc[p]) > Place("json")
                /\ thrownAt[p] \notin {"token", "JWT_SECRET", "jwt.verify",
                                       "request.json", "quizSchema.parse"})
              => quizSchema(request[p].body)
        /\ "Quiz" \in writes[p] => (userId[p] # 0 /\ quizSchema(request[p].body))
        /\ "Quiz" \in writes[p] <=>
              (Place(pc[p]) > Place("quiz.create") /\ thrownAt[p] \notin
                  {"token", "JWT_SECRET", "jwt.verify", "request.json",
                   "quizSchema.parse", "quiz.create"})
        /\ "UserQuestionInteraction" \in writes[p] =>
              ("Quiz" \in writes[p] /\ Place(pc[p]) > Place("createMany"))
        /\ "User" \in writes[p] =>
              ("UserQuestionInteraction" \in writes[p] /\ Place(pc[p]) > Place("user.update"))
        /\ Fetched(p) => ("User" \in writes[p] /\ Place(pc[p]) > Place("findMany"))
        /\ "Leaderboard" \in writes[p] => Fetched(p)
        /\ Succeeded(p) =>
              ({"Quiz", "UserQuestionInteraction", "User"} \subseteq writes[p] /\ Fetched(p))
        /\ thrownAt[p] # "none" => pc[p] = "done"
        /\ thrownAt[p] \in {"token", "JWT_SECRET", "jwt.verify", "request.json",
                             "quizSchema.parse", "quiz.create"} => writes[p] = {}
        /\ thrownAt[p] = "createMany" => writes[p] = {"Quiz"}
        /\ thrownAt[p] = "user.update" =>
              (writes[p] = {"Quiz", "UserQuestionInteraction"} /\ ~Fetched(p))

\* One submission ran all its steps and succeeded; another failed in the
\* Interaction insert and stopped with its Quiz row only.
C21_Witness ==
    \E p, q \in Submissions :
        /\ Succeeded(p) /\ "Leaderboard" \in writes[p]
        /\ thrownAt[q] = "createMany" /\ writes[q] = {"Quiz"} /\ pc[q] = "done"


\* The recompute of p failed at an upsert, and no submission arrived after p.
UpsertFailedLast(p) ==
    /\ pc[p] = "done"
    /\ thrownAt[p] = "updateLeaderboardRanks"
    /\ users[p] # <<>>
    /\ \A q \in Submissions : q > p => pc[q] = "idle"

\* C22 as stated: when an upsert of a recompute fails, the users earlier in
\* the computed ordering remain stale (their rank was not written by this
\* recompute), while later users may have been written.
C22_EarlierUsersRemainStale ==
    \A p \in Submissions :
        UpsertFailedLast(p) =>
            \A k \in DOMAIN users[p] : k < i[p] => rankFrom[users[p][k]] # p

\* C22, amended: when the upsert at position k of a recompute fails, the
\* users before k hold the ranks this recompute computed for them, and the
\* user at k and every later user keep their earlier rank or have none.
C22_EarlierUsersUpdatedLaterStale ==
    \A p \in Submissions :
        UpsertFailedLast(p) =>
            \A k \in DOMAIN users[p] :
                /\ k < i[p] =>
                      (rankFrom[users[p][k]] = p /\ Leaderboard[users[p][k]] = k)
                /\ k >= i[p] => rankFrom[users[p][k]] # p

\* The second upsert of a recompute over two users failed: the first user
\* holds its new rank 1, and the second still holds the rank 1 an earlier
\* recompute gave it.
C22_Witness ==
    \E p \in Submissions :
        /\ UpsertFailedLast(p)
        /\ Len(users[p]) = 2 /\ i[p] = 2
        /\ rankFrom[users[p][1]] = p /\ Leaderboard[users[p][1]] = 1
        /\ rankFrom[users[p][2]] \notin {0, p} /\ Leaderboard[users[p][2]] = 1


\* C23: Quiz rows and Interaction rows are write-once: every step leaves
\* each stored row in its place with the field values it was created with.
C23_RowsWriteOnce ==
    [][/\ \A id \in DOMAIN Quiz : id \in DOMAIN Quiz' /\ Quiz'[id] = Quiz[id]
       /\ \A k \in DOMAIN Interaction :
             k \in DOMAIN Interaction' /\ Interaction'[k] = Interaction[k]]_vars

\* Both submissions have finished; the first stored its rows before the
\* second stored different ones.
C23_Witness ==
    /\ AllDone
    /\ Len(Quiz) = NumSubmissions
    /\ Quiz[1].score # Quiz[2].score
    /\ Len(Interaction) > MaxQuestions

\* The Quiz rows an Interaction row references.
QuizOf(row) == { id \in DOMAIN Quiz : Quiz[id].id = row.quiz_id }

\* C24: in every reachable state each stored Interaction row references
\* exactly one existing Quiz row, and its user is the owner of that Quiz.
C24_InteractionReferencesOwnersQuiz ==
    \A k \in DOMAIN Interaction :
        /\ Cardinality(QuizOf(Interaction[k])) = 1
        /\ \A id \in QuizOf(Interaction[k]) : Quiz[id].user_id = Interaction[k].user_id

\* Interactions of two different users are stored, each for its own quiz.
C24_Witness ==
    \E a, b \in DOMAIN Interaction :
        /\ Interaction[a].user_id # Interaction[b].user_id
        /\ Interaction[a].quiz_id # Interaction[b].quiz_id

\* C26: the quizId a successful submission returns identifies a stored Quiz
\* row, the one its own quiz.create returned, owned by its user and with its
\* payload's fields; two successful submissions never return the same one.
C26_ReturnedQuizIdIsOwn ==
    \A p \in Submissions :
        Succeeded(p) =>
            /\ response[p].quizId \in DOMAIN Quiz
            /\ Quiz[response[p].quizId].id = response[p].quizId
            /\ response[p].quizId \in QuizRowsMatching(p)
            /\ \A q \in Submissions \ {p} :
                  Succeeded(q) => response[q].quizId # response[p].quizId

\* Two submissions succeeded, and the one that arrived first created its
\* Quiz row second.
C26_Witness ==
    /\ \A p \in Submissions : Succeeded(p)
    /\ response[1].quizId = NumSubmissions
    /\ request[1].body # request[NumSubmissions].body

\* C27: a step changes the counters of a user only if it is the aggregate
\* update of a submission by that user; no other step, the recompute
\* included, and no submission of another user changes them.
C27_OnlyOwnCountersChange ==
    [][\A u \in Users :
          User'[u] # User[u] =>
              \E p \in Submissions :
                  /\ userId[p] = u
                  /\ pc[p] = "user.update"
                  /\ "User" \in writes'[p]]_vars

\* Two users have each submitted once and both recomputes have run.
C27_Witness ==
    /\ \A p \in Submissions : Succeeded(p)
    /\ userId[1] # userId[NumSubmissions]
    /\ \A u \in Users : User[u].total_play_count = 1
    /\ User[1].total_score # User[2].total_score


\* C28: every submission whose request arrived eventually has a response,
\* and exactly one: an invocation has a response exactly when it has ended,
\* a response once given never changes, and the recompute loop never goes
\* beyond one upsert per user of its snapshot.
C28_EventuallyOneResponse ==
    /\ \A p \in Submissions :
          (pc[p] # "idle") ~> (pc[p] = "done" /\ response[p] # NoResponse)
    /\ [](\A p \in Submissions :
             /\ (pc[p] = "done") <=> (response[p] # NoResponse)
             /\ i[p] <= Len(users[p]) + 1)
    /\ [][\A p \in Submissions :
             /\ response[p] # NoResponse => response'[p] = response[p]
             /\ i'[p] # i[p] => (i'[p] = i[p] + 1 \/ (pc[p] = "findMany" /\ i'[p] = 1))]_vars

\* Both submissions have their response: one a success after a recompute
\* over two users, the other a structured error.
C28_Witness ==
    \E p, q \in Submissions :
        /\ Succeeded(p) /\ Len(users[p]) = 2 /\ i[p] = 3
        /\ pc[q] = "done" /\ response[q].status = APIErrorStatus


\* The generation request has returned.
Returned(r) == aiPc[r] = "done"

\* C25 as stated: a request calls the model at most 3 times, returns success
\* with an output that cleans, parses and validates, and returns a 500 error
\* exactly when all 3 attempts failed.
C25_ErrorExactlyWhenThreeAttemptsFail ==
    \A r \in Generations :
        /\ calls[r] <= maxRetries
        /\ Returned(r) =>
              /\ aiResponse[r].status = SuccessStatus =>
                    (text[r].kind = "text"
                        /\ validateQuestions(cleanJsonResponse(text[r]).questions))
              /\ aiResponse[r].status = APIErrorStatus <=> retryCount[r] = maxRetries

\* C25, amended: a request calls the model at most 3 times; once its loop has
\* started, every call before the latest one failed, it returns success on
\* the first call whose output cleans, parses and validates, and it returns
\* the 500 error of the loop exactly when 3 calls have failed; each attempt
\* either ends the request or adds one to the count of failures, so the loop
\* ends. A 500 error is also returned, with no call made, when the API key is
\* missing, the body is not JSON or the category lookup fails.
C25_AtMostThreeAttempts ==
    /\ [](\A r \in Generations :
             /\ calls[r] <= maxRetries
             /\ retryCount[r] <= maxRetries
             /\ aiPc[r] = "generateContent" =>
                   (calls[r] = retryCount[r] /\ retryCount[r] < maxRetries)
             /\ Returned(r) =>
                   /\ aiResponse[r].status = SuccessStatus <=>
                         (calls[r] = retryCount[r] + 1 /\ text[r].kind = "text"
                             /\ validateQuestions(cleanJsonResponse(text[r]).questions))
                   /\ aiResponse[r].message = "gave up" <=>
                         (retryCount[r] = maxRetries /\ calls[r] = maxRetries)
                   /\ aiResponse[r].message = "gave up" => aiResponse[r].status = APIErrorStatus
                   /\ aiResponse[r].status = APIErrorStatus =>
                         (aiResponse[r].message = "gave up" \/ calls[r] = 0))
    /\ [][\A r \in Generations :
             calls'[r] # calls[r] =>
                 /\ calls'[r] = calls[r] + 1
                 /\ \/ Returned(r)' /\ aiResponse'[r].status = SuccessStatus
                             /\ retryCount'[r] = retryCount[r]
                    \/ retryCount'[r] = retryCount[r] + 1]_vars

\* One request returned success on its third call after two failures;
\* another returned the 500 error after three failures.
C25_Witness ==
    \E r, q \in Generations :
        /\ Returned(r) /\ aiResponse[r].status = SuccessStatus
        /\ calls[r] = maxRetries /\ retryCount[r] = maxRetries - 1
        /\ Returned(q) /\ aiResponse[q].message = "gave up" /\ calls[q] = maxRetries


\* The request is for an admin page that the first check does not bypass.
AdminRequest(r) ==
    /\ mwPc[r] = "done"
    /\ IsAdmin(path[r])
    /\ path[r] # Root /\ ~StartsWith(path[r], ApiPrefix)
\* The auth endpoint vouched for an admin.
VouchedAdmin(r) ==
    /\ apiData[r].kind = "object"
    /\ apiData[r].success /\ apiData[r].data /\ apiData[r].user
    /\ apiData[r].role = "admin"

\* C29: a request for an admin page is passed on only when it carries a
\* token and the auth endpoint answered OK with success, a user and the
\* role admin; in every other case, a failed auth call included, the
\* middleware answers with a redirect.
C29_AdminPagesNeedAdmin ==
    \A r \in PageRequests :
        AdminRequest(r) =>
            /\ outcome[r] = "next" <=> (~NoTokenValue(token[r]) /\ VouchedAdmin(r))
            /\ outcome[r] # "next" => outcome[r] \in {"redirect /auth", "redirect /"}

\* One admin page was passed on to an admin; another request for an admin
\* page, by a user who is no admin, was redirected home.
C29_Witness ==
    \E r, q \in PageRequests :
        /\ AdminRequest(r) /\ outcome[r] = "next" /\ Len(path[r]) > Len(Root) + Len(ApiPrefix) + 1
        /\ AdminRequest(q) /\ outcome[q] = "redirect /"
        /\ apiData[q].kind = "object" /\ apiData[q].role = "user"

====
